---- MODULE Spec2Model ----
(***************************************************************************)
(* Model of go-http-server-template: the configuration loader             *)
(* (internal/config), the health routes (internal/health), the gin         *)
(* middleware chain and the start-up / graceful shutdown sequence of       *)
(* cmd/server.go.                                                          *)
(***************************************************************************)
EXTENDS Integers, Sequences, FiniteSets, TLC

(***************************************************************************)
(* Bounds of the model.                                                    *)
(***************************************************************************)
\* connections a client may open during one run
MaxConns == 2
\* requests the clients may send during one run, over all connections
MaxReqs == 3

(***************************************************************************)
(* Program constants.                                                      *)
(***************************************************************************)
\* validate:"gt=0"
PortGt == 0
\* validate:"lt=65536"
PortLt == 65536
\* greatest value of the 32 bits env parses an int field with
\* (strconv.ParseInt(v, 10, 32))
MaxInt32 == 2147483647
\* context.WithTimeout(context.Background(), 30*time.Second)
ShutdownTimeout == 30

(***************************************************************************)
(* Environment variables.  A variable is either unset or set to a text.   *)
(* The text of SERVER_PORT is a sequence of characters, so that parsing    *)
(* it is a computation; the other texts are compared whole by the code.    *)
(***************************************************************************)
Unset == [set |-> FALSE, val |-> ""]
UnsetPort == [set |-> FALSE, val |-> <<>>]
Str(s) == [set |-> TRUE, val |-> s]

Digits == <<"0", "1", "2", "3", "4", "5", "6", "7", "8", "9">>

DigitVal(ch) == (CHOOSE i \in 1..10 : Digits[i] = ch) - 1

IsDigit(ch) == \E i \in 1..10 : Digits[i] = ch

\* the accumulator of a decimal digit sequence read left to right: its value
\* m, over when the value no longer fits an int32, and min when it is
\* exactly 2^31 (the magnitude of the least int32)
AccStep(acc, d) ==
  IF acc.over \/ acc.min THEN [over |-> TRUE, min |-> FALSE, m |-> 0]
  ELSE IF acc.m > MaxInt32 \div 10 THEN [over |-> TRUE, min |-> FALSE, m |-> 0]
  ELSE IF acc.m = MaxInt32 \div 10 /\ d > (MaxInt32 % 10)
    THEN [over |-> d > (MaxInt32 % 10) + 1, min |-> d = (MaxInt32 % 10) + 1,
          m |-> 0]
  ELSE [over |-> FALSE, min |-> FALSE, m |-> acc.m * 10 + d]

RECURSIVE DigitsAcc(_)
DigitsAcc(s) ==
  IF s = <<>> THEN [over |-> FALSE, min |-> FALSE, m |-> 0]
  ELSE AccStep(DigitsAcc(SubSeq(s, 1, Len(s) - 1)), DigitVal(s[Len(s)]))

\* a parser that reads the leading digits and ignores what follows them
ParseIntLenient(s) ==
  LET body == IF s # <<>> /\ s[1] \in {"+", "-"} THEN Tail(s) ELSE s
      k    == CHOOSE n \in 0..Len(body) :
                /\ \A i \in 1..n : IsDigit(body[i])
                /\ n < Len(body) => ~IsDigit(body[n + 1])
      acc  == DigitsAcc(SubSeq(body, 1, k))
      neg  == s # <<>> /\ s[1] = "-"
      bad  == k = 0 \/ acc.over \/ acc.min
  IN  [err |-> bad, val |-> IF bad THEN 0 ELSE IF neg THEN 0 - acc.m ELSE acc.m]

\* strconv.ParseInt(v, 10, 32): an optional sign, then decimal digits only;
\* a syntax error or a value outside the signed 32-bit range is an error
ParseInt(s) ==
  LET neg  == s # <<>> /\ s[1] = "-"
      body == IF s # <<>> /\ s[1] \in {"+", "-"} THEN Tail(s) ELSE s
      ok   == body # <<>> /\ \A i \in 1..Len(body) : IsDigit(body[i])
      acc  == IF ok THEN DigitsAcc(body)
              ELSE [over |-> FALSE, min |-> FALSE, m |-> 0]
      inRange == ~acc.over /\ (acc.min => neg)
      v    == IF acc.min THEN 0 - MaxInt32 - 1
              ELSE IF neg THEN 0 - acc.m ELSE acc.m
  IN  [err |-> ~(ok /\ inRange), val |-> IF ok /\ inRange THEN v ELSE 0]

\* godotenv.Load: a variable of the .env file is exported only when the
\* process environment does not already have it; a missing file changes
\* nothing (LoadConfig logs a warning and goes on)
DotenvLoad(penv, file) ==
  IF ~file.present THEN penv
  ELSE [k \in DOMAIN penv |-> IF penv[k].set THEN penv[k] ELSE file.vars[k]]

LogLevels == {"debug", "info", "warn", "error"}
EnvTags == {"local", "dev", "staging", "prod"}

NilConfig ==
  [isNil |-> TRUE,
   Server |-> [Address |-> "", Port |-> 0, LogLevel |-> "", Env |-> ""]]

\* env.Parse(config): fills the ServerConfig fields from SERVER_ADDRESS,
\* SERVER_PORT, SERVER_LOG_LEVEL (envDefault "info") and SERVER_ENV.  A
\* field whose variable is unset or empty keeps its zero value; the Go
\* struct tag required:"true" is not an option of the env package (that
\* would be env:"PORT,required"), so a missing port is no parse error.
EnvParse(e) ==
  LET p == IF e.PORT.set /\ e.PORT.val # <<>>
             THEN ParseInt(e.PORT.val) ELSE [err |-> FALSE, val |-> 0]
  IN  [err |-> p.err,
       Server |-> [Address  |-> IF e.ADDRESS.set THEN e.ADDRESS.val ELSE "",
                   Port     |-> p.val,
                   LogLevel |-> IF e.LOG_LEVEL.set THEN e.LOG_LEVEL.val ELSE "info",
                   Env      |-> IF e.ENV.set THEN e.ENV.val ELSE ""]]

\* the port rule with an upper limit one too low
ValidPortExclusive(port) == port # 0 /\ port > PortGt /\ port < PortLt - 1

\* validate:"required,gt=0,lt=65536" on Port
ValidPort(port) == port # 0 /\ port > PortGt /\ port < PortLt

\* validate:"required,oneof=debug info warn error" on LogLevel
ValidLogLevel(l) == l # "" /\ l \in LogLevels

\* validate:"required,oneof=local dev staging prod" on Env
ValidEnv(t) == t # "" /\ t \in EnvTags

\* validator.New(...).Struct(config): nil when every field rule holds
ValidateStruct(s) ==
  ValidPort(s.Port) /\ ValidLogLevel(s.LogLevel) /\ ValidEnv(s.Env)

\* LoadConfig: godotenv.Load, env.Parse, validator; (nil, err) on failure
LoadConfig(penv, file) ==
  LET parsed == EnvParse(DotenvLoad(penv, file))
  IN  IF parsed.err THEN [err |-> TRUE, config |-> NilConfig]
      ELSE IF ~ValidateStruct(parsed.Server)
             THEN [err |-> TRUE, config |-> NilConfig]
             ELSE [err |-> FALSE,
                   config |-> [isNil |-> FALSE, Server |-> parsed.Server]]

\* zerolog.ParseLevel followed by the fallback of Config.LogLevel: the
\* level names map to zerolog's levels, anything unparsable to InfoLevel
ConfigLogLevel(c) ==
  CASE c.Server.LogLevel = "trace" -> "TraceLevel"
    [] c.Server.LogLevel = "debug" -> "DebugLevel"
    [] c.Server.LogLevel = "info"  -> "InfoLevel"
    [] c.Server.LogLevel = "warn"  -> "WarnLevel"
    [] c.Server.LogLevel = "error" -> "ErrorLevel"
    [] c.Server.LogLevel = "fatal" -> "FatalLevel"
    [] c.Server.LogLevel = "panic" -> "PanicLevel"
    [] c.Server.LogLevel = ""      -> "NoLevel"
    [] OTHER -> "InfoLevel"

\* Config.IsProd
IsProd(c) == c.Server.Env = "prod"


(***************************************************************************)
(* The HTTP handler chain: router.Use(gin.Recovery()),                     *)
(* router.Use(gin.WrapH(hlog.NewHandler(logger)(nil))), then the route.    *)
(***************************************************************************)
Routes == {"/health/live", "/health/ready", "/missing"}

NoResp == [status |-> 0, body |-> ""]
Resp(st, b) == [status |-> st, body |-> b]

\* getHealth of the health service: the check is a stub that succeeds
getHealth == [err |-> FALSE, msg |-> "", res |-> "{}"]

\* handleReadinessProbe: 500 {"error": msg} on error, else 200 with the result
handleReadinessProbe(h) ==
  IF h.err THEN Resp(500, "{\"error\":\"" \o h.msg \o "\"}")
  ELSE Resp(200, h.res)

\* handleLivenessProbe: c.Status(200)
handleLivenessProbe == Resp(200, "")

\* InitRoutes: GET /health/ready and GET /health/live; gin answers any
\* other path with its 404 handler
RouteHandler(route) ==
  CASE route = "/health/ready" -> handleReadinessProbe(getHealth)
    [] route = "/health/live"  -> handleLivenessProbe
    [] OTHER -> Resp(404, "404 page not found")

\* the next handler given to the hlog middleware: hlog.NewHandler(logger)(nil)
HlogNext == "nil"

\* hlog.NewHandler(log)(next) wrapped by gin.WrapH: it puts the logger in
\* the request context and calls next.ServeHTTP; with a nil next that call
\* is a nil dereference, a run-time panic
LoggingPanics(next) == next = "nil"

\* a chain without the recovery middleware: net/http's own recover drops
\* the connection and the client gets no response
RecoveryAbsent(panicked, resp) == IF panicked THEN NoResp ELSE resp

\* gin.Recovery: a panic further down the chain is recovered and answered
\* with AbortWithStatus(500); otherwise the chain's response stands
Recovery(panicked, resp) == IF panicked THEN Resp(500, "") ELSE resp

\* the engine's chain for one request: Recovery, the wrapped hlog handler,
\* the route's handler
ServeHTTP(route) ==
  Recovery(LoggingPanics(HlogNext),
           IF LoggingPanics(HlogNext) THEN NoResp ELSE RouteHandler(route))

(***************************************************************************)
(* State of one run of cmd/server.go.                                      *)
(***************************************************************************)
VARIABLES
  penv,          \* the process environment (SERVER_* variables)
  dotenv,        \* the .env file of the working directory
  mpc,           \* position of the main goroutine
  config,        \* main's config (nil until LoadConfig returns it)
  err,           \* main's err from LoadConfig
  loggerLevel,   \* level of main's logger ("unset" before logger.Level)
  ginMode,       \* gin's mode
  lpc,           \* position of the listener goroutine
  lerr,          \* what srv.ListenAndServe returned
  listener,      \* the server's listening socket: "none", "open", "closed"
  inShutdown,    \* srv.inShutdown
  sigRegistered, \* signal.Notify has run
  quit,          \* the quit channel (capacity 1)
  conns,         \* the client connections
  reqs,          \* number of requests the clients have sent
  elapsed,       \* seconds since shutdownCtx was created
  shutdownErr,   \* what srv.Shutdown returned
  exit,          \* how the process ended
  logs           \* the log lines written

vars == <<penv, dotenv, mpc, config, err, loggerLevel, ginMode, lpc, lerr,
          listener, inShutdown, sigRegistered, quit, conns, reqs,
          elapsed, shutdownErr, exit, logs>>

inputVars == <<penv, dotenv, reqs>>
mainVars == <<mpc, config, err, loggerLevel, ginMode>>
serverVars == <<lpc, lerr, listener, inShutdown>>

ConnIds == 1..MaxConns

FreeConn ==
  [state |-> "free", route |-> "", resp |-> NoResp, atSignal |-> FALSE]

Running == ~exit.exited


(***************************************************************************)
(* Logging and process exit.                                               *)
(***************************************************************************)
LevelRank(l) ==
  CASE l = "TraceLevel" -> 0 - 1
    [] l = "DebugLevel" -> 0
    [] l = "InfoLevel"  -> 1
    [] l = "WarnLevel"  -> 2
    [] l = "ErrorLevel" -> 3
    [] l = "FatalLevel" -> 4
    [] l = "PanicLevel" -> 5
    [] OTHER -> 0 - 1

\* zerolog writes an event when its level is not below the logger's level;
\* the logger of zerolog.New has no level set and writes everything
Log(level, msg) ==
  IF loggerLevel = "unset" \/ LevelRank(level) >= LevelRank(loggerLevel)
    THEN logs \cup {[level |-> level, msg |-> msg]}
    ELSE logs

\* the process ends: every connection is cut, a request still in flight
\* gets no response
CutConns ==
  [c \in ConnIds |->
     IF conns[c].state = "active" THEN [conns[c] EXCEPT !.state = "aborted"]
     ELSE IF conns[c].state = "idle" THEN [conns[c] EXCEPT !.state = "closed"]
     ELSE conns[c]]

\* a fatal log call that writes its line and lets the goroutine go on
FatalNoExit(msg) ==
  /\ logs' = Log("FatalLevel", msg)
  /\ UNCHANGED <<exit, conns>>

\* a fatal log call that ends the process with status 0
FatalExitZero(msg) ==
  /\ logs' = Log("FatalLevel", msg)
  /\ exit' = [exited |-> TRUE, code |-> 0, via |-> "fatal"]
  /\ conns' = CutConns

\* logger.Fatal().Msg(msg): the line is written and os.Exit(1) is called
Fatal(msg) ==
  /\ logs' = Log("FatalLevel", msg)
  /\ exit' = [exited |-> TRUE, code |-> 1, via |-> "fatal"]
  /\ conns' = CutConns

(***************************************************************************)
(* The main goroutine.                                                     *)
(***************************************************************************)
\* server.go 25-28: LoadConfig failed, the process ends with a fatal line
MainLoadConfigFail ==
  /\ Running /\ mpc = "load"
  /\ LoadConfig(penv, dotenv).err
  /\ err' = TRUE
  /\ config' = LoadConfig(penv, dotenv).config
  /\ mpc' = "setup"
  /\ Fatal("failed to load config")
  /\ UNCHANGED <<inputVars, loggerLevel, ginMode, serverVars, sigRegistered,
                 quit, elapsed, shutdownErr>>

\* server.go 25-28: LoadConfig returned a configuration
MainLoadConfigOk ==
  /\ Running /\ mpc = "load"
  /\ ~LoadConfig(penv, dotenv).err
  /\ err' = FALSE
  /\ config' = LoadConfig(penv, dotenv).config
  /\ mpc' = "setup"
  /\ UNCHANGED <<inputVars, loggerLevel, ginMode, serverVars, sigRegistered,
                 quit, conns, elapsed, shutdownErr, exit, logs>>

\* server.go 30-46: logger level, gin mode, router, middleware, routes, srv
MainSetup ==
  /\ Running /\ mpc = "setup"
  /\ loggerLevel' = ConfigLogLevel(config)
  /\ logs' = IF LevelRank("InfoLevel") >= LevelRank(ConfigLogLevel(config))
               THEN logs \cup {[level |-> "InfoLevel", msg |-> "config loaded"]}
               ELSE logs
  /\ ginMode' = IF IsProd(config) THEN "release" ELSE "debug"
  /\ mpc' = "go"
  /\ UNCHANGED <<inputVars, config, err, serverVars, sigRegistered, quit,
                 conns, elapsed, shutdownErr, exit>>

\* server.go 48: the go statement starts the listener goroutine
MainGo ==
  /\ Running /\ mpc = "go"
  /\ lpc' = "start"
  /\ mpc' = "notify"
  /\ UNCHANGED <<inputVars, config, err, loggerLevel, ginMode, lerr, listener,
                 inShutdown, sigRegistered, quit, conns, elapsed, shutdownErr,
                 exit, logs>>

\* server.go 58-59: quit channel of capacity 1, signal.Notify
MainNotify ==
  /\ Running /\ mpc = "notify"
  /\ sigRegistered' = TRUE
  /\ mpc' = "wait"
  /\ UNCHANGED <<inputVars, config, err, loggerLevel, ginMode, serverVars,
                 quit, conns, elapsed, shutdownErr, exit, logs>>

\* server.go 60-65: <-quit returns, the shutdown line is logged and the
\* 30 second context starts
MainWait ==
  /\ Running /\ mpc = "wait"
  /\ quit # <<>>
  /\ quit' = Tail(quit)
  /\ logs' = Log("InfoLevel", "shutting down server")
  /\ elapsed' = 0
  /\ mpc' = "shutdown"
  /\ UNCHANGED <<inputVars, config, err, loggerLevel, ginMode, serverVars,
                 sigRegistered, conns, shutdownErr, exit>>

\* Shutdown that marks the server as shutting down but leaves the
\* listening socket open
ShutdownCloseListenerSkip == listener

\* srv.Shutdown closes the listening socket first
ShutdownCloseListener == IF listener = "open" THEN "closed" ELSE listener

\* server.go 67: srv.Shutdown is entered: inShutdown is set and the
\* listener is closed
MainShutdownBegin ==
  /\ Running /\ mpc = "shutdown"
  /\ inShutdown' = TRUE
  /\ listener' = ShutdownCloseListener
  /\ mpc' = "sd_poll"
  /\ UNCHANGED <<inputVars, config, err, loggerLevel, ginMode, lpc, lerr,
                 sigRegistered, quit, conns, elapsed, shutdownErr, exit, logs>>

\* a wrong closeIdleConns that takes every connection for idle
QuiescentAlways == TRUE

\* closeIdleConns reports whether no connection is still serving a request
Quiescent == \A c \in ConnIds : conns[c].state # "active"

\* srv.Shutdown's loop: closeIdleConns closes the idle connections; when
\* none is active Shutdown returns nil, otherwise it waits in the select
ShutdownPoll ==
  /\ Running /\ mpc = "sd_poll"
  /\ conns' = [c \in ConnIds |->
                 IF conns[c].state = "idle"
                   THEN [conns[c] EXCEPT !.state = "closed"] ELSE conns[c]]
  /\ IF Quiescent
       THEN shutdownErr' = "nil" /\ mpc' = "sd_ret"
       ELSE shutdownErr' = shutdownErr /\ mpc' = "sd_select"
  /\ UNCHANGED <<inputVars, config, err, loggerLevel, ginMode, serverVars,
                 sigRegistered, quit, elapsed, exit, logs>>

\* srv.Shutdown's select: the poll timer fired
ShutdownTimer ==
  /\ Running /\ mpc = "sd_select"
  /\ mpc' = "sd_poll"
  /\ UNCHANGED <<inputVars, config, err, loggerLevel, ginMode, serverVars,
                 sigRegistered, quit, conns, elapsed, shutdownErr, exit, logs>>

\* a context that is done as soon as it is made
CtxDoneAtOnce == TRUE

\* a context without a deadline
CtxDoneNever == FALSE

\* the context's deadline has passed
CtxDone == elapsed >= ShutdownTimeout

\* srv.Shutdown's select: ctx.Done() is ready, Shutdown returns ctx.Err()
ShutdownCtxDone ==
  /\ Running /\ mpc = "sd_select"
  /\ CtxDone
  /\ shutdownErr' = "deadline"
  /\ mpc' = "sd_ret"
  /\ UNCHANGED <<inputVars, config, err, loggerLevel, ginMode, serverVars,
                 sigRegistered, quit, conns, elapsed, exit, logs>>

\* server.go 67-69: Shutdown returned an error, fatal line and exit
MainShutdownFailed ==
  /\ Running /\ mpc = "sd_ret"
  /\ shutdownErr # "nil"
  /\ mpc' = "exited"
  /\ Fatal("failed to shutdown server")
  /\ UNCHANGED <<inputVars, config, err, loggerLevel, ginMode, serverVars,
                 sigRegistered, quit, elapsed, shutdownErr>>

\* server.go 67-70: Shutdown returned nil, main returns and the process
\* ends with status 0
MainReturn ==
  /\ Running /\ mpc = "sd_ret"
  /\ shutdownErr = "nil"
  /\ mpc' = "exited"
  /\ exit' = [exited |-> TRUE, code |-> 0, via |-> "return"]
  /\ conns' = CutConns
  /\ UNCHANGED <<inputVars, config, err, loggerLevel, ginMode, serverVars,
                 sigRegistered, quit, elapsed, shutdownErr, logs>>


(***************************************************************************)
(* The listener goroutine (server.go 48-56).                               *)
(***************************************************************************)
\* server.go 49: the goroutine logs that the server started
ListenerStart ==
  /\ Running /\ lpc = "start"
  /\ logs' = Log("InfoLevel", "server started")
  /\ lpc' = "listen"
  /\ UNCHANGED <<inputVars, mainVars, lerr, listener, inShutdown,
                 sigRegistered, quit, conns, elapsed, shutdownErr, exit>>

\* a server that does not look at its shutdown flag before it listens
ShuttingDownNever == FALSE

\* srv.shuttingDown(), the test ListenAndServe makes before it binds
ShuttingDown == inShutdown

\* srv.ListenAndServe called after Shutdown: it returns ErrServerClosed
\* without binding the port
ListenAfterShutdown ==
  /\ Running /\ lpc = "listen"
  /\ ShuttingDown
  /\ lerr' = "ErrServerClosed"
  /\ lpc' = "returned"
  /\ UNCHANGED <<inputVars, mainVars, listener, inShutdown, sigRegistered,
                 quit, conns, elapsed, shutdownErr, exit, logs>>

\* srv.ListenAndServe binds config.Server.Address:Port and serves
ListenBind ==
  /\ Running /\ lpc = "listen"
  /\ ~ShuttingDown
  /\ listener' = "open"
  /\ lpc' = "serving"
  /\ UNCHANGED <<inputVars, mainVars, lerr, inShutdown, sigRegistered, quit,
                 conns, elapsed, shutdownErr, exit, logs>>

\* a goroutine that calls ListenAndServe again after a failed bind
AfterBindFailRetry == "listen"

\* server.go 51: ListenAndServe is called once, outside any loop; when it
\* has returned the goroutine goes on to the test of its result
AfterBindFail == "returned"

\* srv.ListenAndServe cannot bind the port (in use, not permitted): it
\* returns the error of net.Listen
ListenBindFail ==
  /\ Running /\ lpc = "listen"
  /\ ~ShuttingDown
  /\ lerr' = "bind"
  /\ lpc' = AfterBindFail
  /\ UNCHANGED <<inputVars, mainVars, listener, inShutdown, sigRegistered,
                 quit, conns, elapsed, shutdownErr, exit, logs>>

\* Serve's accept loop finds the listener closed by Shutdown and returns
\* ErrServerClosed
ServeReturn ==
  /\ Running /\ lpc = "serving"
  /\ listener = "closed"
  /\ lerr' = "ErrServerClosed"
  /\ lpc' = "returned"
  /\ UNCHANGED <<inputVars, mainVars, listener, inShutdown, sigRegistered,
                 quit, conns, elapsed, shutdownErr, exit, logs>>

\* a test that forgets ErrServerClosed: every error is a start failure
IsStartFailureAnyErr(e) == e # "nil"

\* server.go 51: err != nil && err != http.ErrServerClosed
IsStartFailure(e) == e # "nil" /\ e # "ErrServerClosed"

\* server.go 51-52: an error other than ErrServerClosed is fatal
ListenerFatal ==
  /\ Running /\ lpc = "returned"
  /\ IsStartFailure(lerr)
  /\ lpc' = "done"
  /\ Fatal("failed to start server")
  /\ UNCHANGED <<inputVars, mainVars, lerr, listener, inShutdown,
                 sigRegistered, quit, elapsed, shutdownErr>>

\* server.go 53-55: the server stopped, the goroutine ends
ListenerStopped ==
  /\ Running /\ lpc = "returned"
  /\ ~IsStartFailure(lerr)
  /\ logs' = Log("InfoLevel", "server stopped")
  /\ lpc' = "done"
  /\ UNCHANGED <<inputVars, mainVars, lerr, listener, inShutdown,
                 sigRegistered, quit, conns, elapsed, shutdownErr, exit>>

(***************************************************************************)
(* Clients: connections and requests.                                      *)
(***************************************************************************)
\* a server that takes connections before ListenAndServe has bound the port
AcceptingEarly == lpc \in {"listen", "serving"} /\ listener # "closed"

\* the server accepts a connection while Serve runs on an open listener
Accepting == lpc = "serving" /\ listener = "open"

\* connections are numbered in the order the client opens them
NextConn(c) ==
  /\ conns[c].state = "free"
  /\ \A d \in ConnIds : d < c => conns[d].state # "free"

\* a client connects to the port and sends a request: Serve accepts the
\* connection and a goroutine starts handling the request
Connect(c, r) ==
  /\ Running /\ NextConn(c)
  /\ Accepting
  /\ reqs < MaxReqs
  /\ reqs' = reqs + 1
  /\ conns' = [conns EXCEPT ![c] = [state |-> "active", route |-> r,
                                    resp |-> NoResp, atSignal |-> FALSE]]
  /\ UNCHANGED <<penv, dotenv, mainVars, serverVars, sigRegistered, quit,
                 elapsed, shutdownErr, exit, logs>>

\* a client connects while nothing listens on the port: refused
ConnectRefused(c) ==
  /\ Running /\ NextConn(c)
  /\ ~Accepting
  /\ conns' = [conns EXCEPT ![c].state = "refused"]
  /\ UNCHANGED <<inputVars, mainVars, serverVars, sigRegistered, quit,
                 elapsed, shutdownErr, exit, logs>>

\* the handler chain finishes a request: the response is written, then
\* the connection turns idle, or is closed when the server is shutting
\* down (no keep-alive)
Complete(c) ==
  /\ Running /\ conns[c].state = "active"
  /\ conns' = [conns EXCEPT ![c].resp = ServeHTTP(conns[c].route),
                            ![c].state = IF inShutdown THEN "closed" ELSE "idle"]
  /\ UNCHANGED <<inputVars, mainVars, serverVars, sigRegistered, quit,
                 elapsed, shutdownErr, exit, logs>>

\* the client sends another request on a kept-alive connection
NextRequest(c, r) ==
  /\ Running /\ conns[c].state = "idle"
  /\ reqs < MaxReqs
  /\ reqs' = reqs + 1
  /\ conns' = [conns EXCEPT ![c].state = "active", ![c].route = r,
                            ![c].resp = NoResp]
  /\ UNCHANGED <<penv, dotenv, mainVars, serverVars, sigRegistered, quit,
                 elapsed, shutdownErr, exit, logs>>

(***************************************************************************)
(* Signals and time.                                                       *)
(***************************************************************************)
Signals == {"SIGINT", "SIGTERM"}

\* SIGINT or SIGTERM arrives after signal.Notify: it is put on the quit
\* channel, or dropped when the channel is full
SignalNotified(sig) ==
  /\ Running /\ sigRegistered
  /\ quit' = IF quit = <<>> THEN <<sig>> ELSE quit
  /\ conns' = [c \in ConnIds |->
                 IF conns[c].state = "active" /\ mpc = "wait" /\ quit = <<>>
                   THEN [conns[c] EXCEPT !.atSignal = TRUE] ELSE conns[c]]
  /\ UNCHANGED <<inputVars, mainVars, serverVars, sigRegistered, elapsed,
                 shutdownErr, exit, logs>>

\* SIGINT or SIGTERM arrives before signal.Notify: the Go runtime ends the
\* process at once
SignalDefault(sig) ==
  /\ Running /\ ~sigRegistered
  /\ exit' = [exited |-> TRUE, code |-> 128, via |-> "signal"]
  /\ conns' = CutConns
  /\ UNCHANGED <<inputVars, mainVars, serverVars, sigRegistered, quit,
                 elapsed, shutdownErr, logs>>

\* granularity of the clock, in seconds
TickStep == 10

\* time passes while Shutdown waits in its select (the other steps of the
\* program take no time on the scale of seconds)
Tick ==
  /\ Running /\ mpc = "sd_select"
  /\ elapsed < ShutdownTimeout
  /\ elapsed' = IF elapsed + TickStep > ShutdownTimeout
                  THEN ShutdownTimeout ELSE elapsed + TickStep
  /\ UNCHANGED <<inputVars, mainVars, serverVars, sigRegistered, quit, conns,
                 shutdownErr, exit, logs>>

(***************************************************************************)
(* Inputs.                                                                 *)
(***************************************************************************)
PortTexts ==
  { <<>>, <<"0">>, <<"1">>, <<"8", "0", "8", "0">>, <<"+", "8", "0">>,
    <<"6", "5", "5", "3", "5">>, <<"6", "5", "5", "3", "6">>, <<"-", "1">>,
    <<"8", "0", "a">>, <<"4", "2", "9", "4", "9", "6", "7", "2", "9", "7">> }

PortValues == {UnsetPort} \cup {Str(t) : t \in PortTexts}
EnvValues ==
  {Unset} \cup {Str(t) : t \in EnvTags \cup {"", "test", "Prod"}}
LogLevelValues ==
  {Unset} \cup {Str(t) : t \in LogLevels \cup {"trace", "verbose"}}
AddressValues == {Unset, Str("127.0.0.1"), Str("")}

NoDotenv ==
  [present |-> FALSE,
   vars |-> [ADDRESS |-> Unset, PORT |-> UnsetPort, LOG_LEVEL |-> Unset,
             ENV |-> Unset]]

\* .env files: none, one giving port and tag, one giving a bad tag
DotenvFiles ==
  { NoDotenv,
    [present |-> TRUE,
     vars |-> [ADDRESS |-> Unset, PORT |-> Str(<<"8", "0", "8", "0">>),
               LOG_LEVEL |-> Unset, ENV |-> Str("local")]],
    [present |-> TRUE,
     vars |-> [ADDRESS |-> Unset, PORT |-> UnsetPort,
               LOG_LEVEL |-> Str("debug"), ENV |-> Str("qa")]] }

AllEnvs ==
  [ADDRESS : AddressValues, PORT : PortValues, LOG_LEVEL : LogLevelValues,
   ENV : EnvValues]

\* the environments of the life-cycle runs: a local one, a production one
\* with its own log level, one that lacks the port, one with a bad tag
RunEnvs ==
  { [ADDRESS |-> Unset, PORT |-> Str(<<"8", "0", "8", "0">>),
     LOG_LEVEL |-> Unset, ENV |-> Str("local")],
    [ADDRESS |-> Str("127.0.0.1"), PORT |-> Str(<<"6", "5", "5", "3", "5">>),
     LOG_LEVEL |-> Str("error"), ENV |-> Str("prod")],
    [ADDRESS |-> Unset, PORT |-> UnsetPort,
     LOG_LEVEL |-> Unset, ENV |-> Str("dev")],
    [ADDRESS |-> Unset, PORT |-> Str(<<"8", "0", "8", "0">>),
     LOG_LEVEL |-> Str("debug"), ENV |-> Str("test")] }

InitProcess ==
  /\ mpc = "load"
  /\ config = NilConfig
  /\ err = FALSE
  /\ loggerLevel = "unset"
  /\ ginMode = "debug"
  /\ lpc = "none"
  /\ lerr = "nil"
  /\ listener = "none"
  /\ inShutdown = FALSE
  /\ sigRegistered = FALSE
  /\ quit = <<>>
  /\ conns = [c \in ConnIds |-> FreeConn]
  /\ reqs = 0
  /\ elapsed = 0
  /\ shutdownErr = "none"
  /\ exit = [exited |-> FALSE, code |-> 0, via |-> "none"]
  /\ logs = {}

Init ==
  /\ penv \in RunEnvs
  /\ dotenv = NoDotenv
  /\ InitProcess

Next ==
  \/ MainLoadConfigFail
  \/ MainLoadConfigOk
  \/ MainSetup
  \/ MainGo
  \/ MainNotify
  \/ MainWait
  \/ MainShutdownBegin
  \/ ShutdownPoll
  \/ ShutdownTimer
  \/ ShutdownCtxDone
  \/ MainShutdownFailed
  \/ MainReturn
  \/ ListenerStart
  \/ ListenAfterShutdown
  \/ ListenBind
  \/ ListenBindFail
  \/ ServeReturn
  \/ ListenerFatal
  \/ ListenerStopped
  \/ \E c \in ConnIds, r \in Routes : Connect(c, r)
  \/ \E c \in ConnIds : ConnectRefused(c)
  \/ \E c \in ConnIds : Complete(c)
  \/ \E c \in ConnIds, r \in Routes : NextRequest(c, r)
  \/ \E sig \in Signals : SignalNotified(sig)
  \/ \E sig \in Signals : SignalDefault(sig)
  \/ Tick

Spec == Init /\ [][Next]_vars

\* the loader alone, over every environment and .env file of the input sets
InitConfig ==
  /\ penv \in AllEnvs
  /\ dotenv \in DotenvFiles
  /\ InitProcess

NextConfig ==
  \/ MainLoadConfigFail
  \/ MainLoadConfigOk
  \/ MainSetup

SpecConfig == InitConfig /\ [][NextConfig]_vars


(***************************************************************************)
(* The life-cycle state of the specification, read off the program.        *)
(***************************************************************************)
Lifecycle ==
  CASE exit.via = "fatal"  -> "Aborted"
    [] exit.via = "return" -> "Stopped"
    [] exit.via = "signal" -> "Killed"
    [] inShutdown          -> "Draining"
    [] listener = "open"   -> "Running"
    [] OTHER               -> "Initializing"

Served(c) == conns[c].resp # NoResp

FatalLine(msg) == [level |-> "FatalLevel", msg |-> msg]

(***************************************************************************)
(* Properties.                                                             *)
(***************************************************************************)

C4_NoAcceptWhileDraining ==
  [][(inShutdown \/ exit.exited) =>
       \A c \in ConnIds :
         conns[c].state = "free" => conns'[c].state \in {"free", "refused"}]_vars

\* a connection was refused during the shutdown, after an earlier one had
\* been accepted
C4_Witness ==
  /\ inShutdown
  /\ \E c, d \in ConnIds :
       /\ d < c
       /\ conns[d].state \notin {"free", "refused"}
       /\ conns[c].state = "refused"

\* C5 as stated: whenever the signal handler is registered the port has
\* been bound, and a request is handled only on a bound port.
C5_BoundBeforeNotify ==
  /\ sigRegistered => listener # "none"
  /\ \A c \in ConnIds :
       conns[c].state \in {"active", "idle", "closed", "aborted"} =>
         listener # "none"

\* C5 amended: the listener goroutine is started before the signal handler
\* is registered, and a request is handled only after the port was bound
\* and the configuration loaded; the bind itself may come before or after
\* the registration.
C5_SpawnBeforeNotify ==
  /\ sigRegistered => lpc # "none"
  /\ \A c \in ConnIds :
       conns[c].state \in {"active", "idle", "closed", "aborted"} =>
         listener # "none" /\ ~config.isNil

\* the handler is registered while the goroutine has not bound the port yet
C5_Witness ==
  /\ sigRegistered /\ lpc \in {"start", "listen"} /\ listener = "none"
  /\ ~exit.exited

\* C6: the listener goroutine exists only after LoadConfig returned a
\* configuration without error and the logger level was set from it; after
\* a LoadConfig error the process has ended, no listener was started and
\* no request was accepted.
C6_ConfigBeforeListener ==
  /\ lpc # "none" =>
       /\ ~err /\ ~config.isNil
       /\ LoadConfig(penv, dotenv).config = config
       /\ loggerLevel = ConfigLogLevel(config)
  /\ err =>
       /\ exit.via = "fatal"
       /\ lpc = "none" /\ listener = "none" /\ reqs = 0
       /\ \A c \in ConnIds : conns[c].state \in {"free", "refused"}

\* the listener serves with the logger level taken from SERVER_LOG_LEVEL
C6_Witness ==
  /\ listener = "open" /\ loggerLevel = "ErrorLevel"
  /\ \E c \in ConnIds : conns[c].state = "active"


(***************************************************************************)
(* The loader's inputs as the specification describes them.                *)
(***************************************************************************)
\* the environment LoadConfig reads: the process environment, completed
\* from the .env file
EffEnv ==
  [k \in DOMAIN penv |->
     IF penv[k].set \/ ~dotenv.present THEN penv[k] ELSE dotenv.vars[k]]

RECURSIVE StripZeros(_)
StripZeros(t) ==
  IF t # <<>> /\ t[1] = "0" THEN StripZeros(Tail(t)) ELSE t

RECURSIVE Decimal(_)
Decimal(t) ==
  IF t = <<>> THEN 0
  ELSE 10 * Decimal(SubSeq(t, 1, Len(t) - 1))
       + (CHOOSE v \in 0..9 : Digits[v + 1] = t[Len(t)])

\* the text is a decimal numeral, with an optional sign
IsNumeral(t) ==
  LET body == IF t # <<>> /\ t[1] \in {"+", "-"} THEN Tail(t) ELSE t
  IN  body # <<>> /\ \A i \in 1..Len(body) : body[i] \in {Digits[j] : j \in 1..10}

\* the text denotes an integer of 1..65535
DenotesPort(t) ==
  /\ IsNumeral(t)
  /\ t[1] # "-"
  /\ LET body == StripZeros(IF t[1] = "+" THEN Tail(t) ELSE t)
     IN  Len(body) <= 5 /\ Decimal(body) >= 1 /\ Decimal(body) <= 65535

PortOf(t) == Decimal(StripZeros(IF t[1] = "+" THEN Tail(t) ELSE t))

MissingPort(v) == ~v.set \/ v.val = <<>>
MissingText(v) == ~v.set \/ v.val = ""

InputInvalid ==
  \/ MissingPort(EffEnv.PORT)
  \/ MissingText(EffEnv.ENV)
  \/ ~DenotesPort(EffEnv.PORT.val)
  \/ EffEnv.ENV.val \notin {"local", "dev", "staging", "prod"}
  \/ EffEnv.LOG_LEVEL.set
       /\ EffEnv.LOG_LEVEL.val \notin {"debug", "info", "warn", "error"}

InputValid ==
  /\ EffEnv.PORT.set /\ DenotesPort(EffEnv.PORT.val)
  /\ EffEnv.ENV.set /\ EffEnv.ENV.val \in {"local", "dev", "staging", "prod"}
  /\ EffEnv.LOG_LEVEL.set =>
       EffEnv.LOG_LEVEL.val \in {"debug", "info", "warn", "error"}

Loaded == mpc # "load"

\* C7: when the port or the environment tag is missing, the port is not an
\* integer of 1..65535, or the log level or the tag is outside its
\* enumeration, LoadConfig returns an error and a nil configuration (and
\* main ends the process with the fatal line).
C7_InvalidInputRejected ==
  (Loaded /\ InputInvalid) =>
    /\ err /\ config.isNil /\ config = NilConfig
    /\ exit.via = "fatal"
    /\ FatalLine("failed to load config") \in logs

\* a port one above the range, everything else valid, was rejected
C7_Witness ==
  /\ Loaded /\ err
  /\ EffEnv.PORT = Str(<<"6", "5", "5", "3", "6">>)
  /\ EffEnv.ENV = Str("prod") /\ ~EffEnv.LOG_LEVEL.set

\* C8: for a port of 1..65535, a tag of the enumeration and a log level of
\* the enumeration or none, LoadConfig returns no error and a configuration
\* that carries the port's value, the tag, the bind address and the log
\* level; without a log level the configuration says info, and the
\* logger runs at the zerolog level of that name.
C8_ValidInputLoaded ==
  (Loaded /\ InputValid) =>
    /\ ~err /\ ~config.isNil
    /\ config.Server.Port = PortOf(EffEnv.PORT.val)
    /\ config.Server.Env = EffEnv.ENV.val
    /\ config.Server.Address =
         (IF EffEnv.ADDRESS.set THEN EffEnv.ADDRESS.val ELSE "")
    /\ config.Server.LogLevel =
         (IF EffEnv.LOG_LEVEL.set THEN EffEnv.LOG_LEVEL.val ELSE "info")
    /\ ConfigLogLevel(config) =
         (CASE config.Server.LogLevel = "debug" -> "DebugLevel"
            [] config.Server.LogLevel = "info"  -> "InfoLevel"
            [] config.Server.LogLevel = "warn"  -> "WarnLevel"
            [] config.Server.LogLevel = "error" -> "ErrorLevel")
    /\ mpc \notin {"load", "setup"} => loggerLevel = ConfigLogLevel(config)
    /\ ~exit.exited

\* the greatest port, no log level given: loaded, and the logger is at info
C8_Witness ==
  /\ mpc = "go" /\ ~err
  /\ config.Server.Port = 65535
  /\ ~EffEnv.LOG_LEVEL.set /\ loggerLevel = "InfoLevel"
  /\ EffEnv.ADDRESS = Str("127.0.0.1")

\* C9: every response to GET /health/live has status 200.
C9_LiveAlways200 ==
  \A c \in ConnIds :
    (conns[c].route = "/health/live" /\ Served(c)) => conns[c].resp.status = 200

\* C10: every response to GET /health/ready is 200 with the body {} when
\* the self-check succeeds and 500 with an error body when it fails, and
\* the health routes answer with no status other than 200 and 500.
C10_ReadyStatus ==
  \A c \in ConnIds :
    /\ (conns[c].route = "/health/ready" /\ Served(c)) =>
         conns[c].resp =
           (IF getHealth.err
              THEN Resp(500, "{\"error\":\"" \o getHealth.msg \o "\"}")
              ELSE Resp(200, "{}"))
    /\ (conns[c].route \in {"/health/ready", "/health/live"} /\ Served(c)) =>
         conns[c].resp.status \in {200, 500}


\* the request of connection c is finished by this step
Finishes(c) ==
  conns[c].state = "active" /\ conns'[c].state \in {"idle", "closed"}

\* C11: a step that finishes a request whose handling panicked writes the
\* 500 response of the recovery middleware on that connection and changes
\* nothing else: the other connections, the exit state and the life-cycle
\* state stay as they are, and the process goes on running.
C11_PanicContained ==
  [][\A c \in ConnIds :
       (Finishes(c) /\ LoggingPanics(HlogNext)) =>
         /\ conns'[c].resp = Resp(500, "")
         /\ \A d \in ConnIds \ {c} : conns'[d] = conns[d]
         /\ exit' = exit /\ ~exit'.exited
         /\ Lifecycle' = Lifecycle
         /\ listener' = listener /\ lpc' = lpc /\ mpc' = mpc]_vars

\* after one request panicked and got its 500, a later request on the same
\* connection and one on another connection were answered too, and the
\* server is still Running
C11_Witness ==
  /\ Lifecycle = "Running"
  /\ reqs >= 3
  /\ \E c, d \in ConnIds :
       /\ c # d
       /\ conns[c].state = "idle" /\ conns[c].resp = Resp(500, "")
       /\ conns[d].state = "idle" /\ conns[d].resp = Resp(500, "")


\* C12 as stated, for the runs no unregistered signal ends: a run in which
\* the bind failed ends in Aborted with a non-zero status.
C12_BindFailureAborts ==
  (exit.exited /\ lerr = "bind" /\ exit.via # "signal") =>
    (Lifecycle = "Aborted" /\ exit.code # 0)

StartupFailureFatal ==
  /\ err => exit.via = "fatal" /\ exit.code # 0
  /\ lerr = "bind" =>
       /\ listener = "none" /\ reqs = 0
       /\ \A c \in ConnIds : conns[c].state \in {"free", "refused"}
  /\ FatalLine("failed to start server") \in logs =>
       lerr = "bind" /\ Lifecycle = "Aborted" /\ exit.code # 0
  /\ (exit.exited /\ lerr = "bind") =>
       \/ Lifecycle = "Aborted" /\ exit.code # 0
       \/ exit.via = "return" /\ shutdownErr = "nil" /\ inShutdown
       \/ exit.via = "signal"

\* C12 amended: LoadConfig and the bind are each attempted at most once; a
\* configuration error ends the process through Aborted; after a bind
\* failure the port is never bound and no request is ever served, and the
\* run ends in Aborted with a non-zero status unless a termination signal
\* ends the process first (main returning with status 0 after Shutdown
\* returned nil, or the signal's default action before signal.Notify),
\* which can happen between ListenAndServe's return and the fatal log call.
C12_StartupNotRetried ==
  /\ []StartupFailureFatal
  /\ [][/\ mpc # "load" => mpc' # "load"
        /\ lpc \in {"serving", "returned", "done"} =>
             lpc' \notin {"start", "listen"}
        /\ lerr = "bind" => lerr' = "bind" /\ listener' = "none"]_vars

\* the bind failed, a client was refused, and the process ended in Aborted
C12_Witness ==
  /\ lerr = "bind" /\ Lifecycle = "Aborted" /\ exit.code = 1
  /\ FatalLine("failed to start server") \in logs
  /\ \E c \in ConnIds : conns[c].state = "refused"


\* the life-cycle steps the specification's state list allows; the end of
\* the process by a signal that arrives before signal.Notify is left aside
ListedSteps ==
  { <<"Initializing", "Running">>, <<"Running", "Draining">>,
    <<"Draining", "Stopped">>, <<"Initializing", "Aborted">>,
    <<"Running", "Aborted">>, <<"Draining", "Aborted">> }

\* C13 as stated: every change of the life-cycle state is a listed step.
C13_ListedStepsOnly ==
  [][(Lifecycle' # Lifecycle /\ Lifecycle' # "Killed") =>
       <<Lifecycle, Lifecycle'>> \in ListedSteps]_vars

\* the listener changes only by the bind of ListenAndServe in the goroutine
\* main started, made while the server is not shutting down, and by main's
\* Shutdown call
ListenerStep ==
  listener' # listener =>
    \/ /\ listener = "none" /\ listener' = "open"
       /\ lpc = "listen" /\ lpc' = "serving" /\ ~inShutdown
    \/ /\ listener = "open" /\ listener' = "closed"
       /\ mpc = "shutdown" /\ mpc' = "sd_poll" /\ inShutdown'

\* C13 amended: the life cycle moves along Initializing -> Running ->
\* Draining -> Stopped, except that Draining is entered directly from
\* Initializing when the signal is handled before the port is bound (or
\* after the bind failed); Aborted is reached from Initializing, Running or
\* Draining (a failed Shutdown, or a bind failure reported while draining);
\* a signal that arrives before signal.Notify ends the process from
\* Initializing or Running; the end states are never left and no state is
\* entered twice; the listener changes only by the goroutine's bind and by
\* main's Shutdown call.
C13_LifecycleSteps ==
  [][/\ Lifecycle' # Lifecycle =>
          \/ <<Lifecycle, Lifecycle'>> \in ListedSteps
          \/ <<Lifecycle, Lifecycle'>> = <<"Initializing", "Draining">>
          \/ Lifecycle \in {"Initializing", "Running"} /\ Lifecycle' = "Killed"
     /\ exit.exited => exit' = exit /\ listener' = listener /\ conns' = conns
     /\ ListenerStep]_vars

\* the shutdown has begun while the goroutine has not bound the port
C13_Witness ==
  /\ Lifecycle = "Draining"
  /\ listener = "none" /\ lpc \in {"start", "listen"}
  /\ lerr = "nil"


(***************************************************************************)
(* Scheduling.  The Go scheduler runs the main goroutine whenever it can   *)
(* take a step (weak fairness of its steps); the clock goes on; a select   *)
(* with several ready cases picks one at random, so a case that is ready   *)
(* again and again is taken in the end (strong fairness of the ctx.Done    *)
(* case and of the clock, which the model lets tick only inside the        *)
(* select).  Nothing is assumed about clients, requests in flight or the   *)
(* listener goroutine.                                                     *)
(***************************************************************************)
\* the runs checked for termination start from the environments with the
\* default log level (the level only decides which lines are written)
InitFair ==
  /\ penv \in {e \in RunEnvs : ~e.LOG_LEVEL.set}
  /\ dotenv = NoDotenv
  /\ InitProcess

FairSpec ==
  /\ InitFair /\ [][Next]_vars
  /\ WF_vars(MainWait)
  /\ WF_vars(MainShutdownBegin)
  /\ WF_vars(ShutdownPoll)
  /\ WF_vars(ShutdownTimer)
  /\ SF_vars(ShutdownCtxDone)
  /\ SF_vars(Tick)
  /\ WF_vars(MainShutdownFailed)
  /\ WF_vars(MainReturn)

\* C14: once SIGINT or SIGTERM is on the quit channel the process ends,
\* whatever the requests in flight do and whatever the clients send.
C14_SignalLeadsToExit == (quit # <<>>) ~> exit.exited

\* the process has ended after a signal although a request never finished
C14_Witness ==
  /\ exit.exited /\ mpc = "exited"
  /\ elapsed = ShutdownTimeout
  /\ reqs = MaxReqs
  /\ \E c \in ConnIds : conns[c].state = "aborted"


\* C15: when ListenAndServe was called after Shutdown, so that it returned
\* ErrServerClosed without binding the port, the goroutine logs no start
\* failure, no connection was ever accepted and no request served, and the
\* process ends only by main returning, with status 0.
C15_ShutdownBeforeBind ==
  (lerr = "ErrServerClosed" /\ listener = "none") =>
    /\ inShutdown /\ lpc \in {"returned", "done"}
    /\ reqs = 0
    /\ \A c \in ConnIds : conns[c].state \in {"free", "refused"}
    /\ FatalLine("failed to start server") \notin logs
    /\ exit.exited =>
         /\ exit.via = "return" /\ exit.code = 0
         /\ Lifecycle = "Stopped"

\* that run has ended: the goroutine stopped normally, a client was refused
C15_Witness ==
  /\ lerr = "ErrServerClosed" /\ listener = "none" /\ lpc = "done"
  /\ exit.via = "return" /\ exit.code = 0
  /\ [level |-> "InfoLevel", msg |-> "server stopped"] \in logs
  /\ \E c \in ConnIds : conns[c].state = "refused"

====
